---------------------------- MODULE Spec2Model ----------------------------
(***************************************************************************)
(* Model of python-runner.py: one process executes one code submission     *)
(* for one session and talks to its parent over stdin/stdout.              *)
(*                                                                         *)
(* Text is a sequence of tokens.  "\n" is the line terminator, " " a blank,*)
(* "S" stands for the sentinel text __END_OF_CODE__, "T" for the body of a *)
(* formatted traceback, "N" for the text "No code provided"; any other     *)
(* token is an ordinary printable character.                               *)
(*                                                                         *)
(* The submitted code is opaque: while it runs it may, in any order, call  *)
(* the injected print, call the injected input, write to the redirected    *)
(* sys.stdout / sys.stderr, raise, or return.  Its namespace carries the   *)
(* complete builtins, so it may also read sys.stdin itself and write to    *)
(* the original stdout (sys.__stdout__, file descriptor 1).                *)
(***************************************************************************)
EXTENDS Integers, Sequences, FiniteSets, TLC

VARIABLES
    argv,            \* sys.argv[1:]
    pc,              \* position of the process in main / execute_code
    stdin_read,      \* lines the process has consumed from sys.stdin, in order
    eof,             \* sys.stdin has reported end-of-stream
    code_lines,      \* main: code_lines
    out,             \* records written to the original stdout, in order
    diag,            \* what reached the process's real stderr
    stdout_capture,  \* execute_code: stdout_capture (io.StringIO)
    stderr_capture,  \* execute_code: stderr_capture (io.StringIO)
    exit_status,     \* <<status>> once the process has exited, <<>> before
    fault,           \* what ended exec: "none", "return", or the kind raised
    mark,            \* Len(out) at the moment exec ended, 0 before that
    steps,           \* operations the submitted code has performed
    print_log,       \* history: arguments of every returned custom_print call
    input_log,       \* history: prompt of every custom_input call
    replies,         \* history: value returned by every request_input call
    reply_lines,     \* history: what readline() gave each request_input call
    stdout_writes,   \* history: texts written to the redirected sys.stdout
    stderr_writes,   \* history: texts written to the redirected sys.stderr
    direct_lines     \* history: what the code's own reads of sys.stdin gave it

vars == <<argv, pc, stdin_read, eof, code_lines, out, diag, stdout_capture,
          stderr_capture, exit_status, fault, mark, steps, print_log,
          input_log, replies, reply_lines, stdout_writes, stderr_writes,
          direct_lines>>

----------------------------------------------------------------------------
(* Bounds *)

MaxLines == 4        \* lines the parent writes before closing the stream
MaxSteps == 3        \* operations performed by the submitted code
MaxCodeLines == 1    \* lines of code the parent submits

----------------------------------------------------------------------------
(* Input alphabets *)

SessionIds == {"s1"}

SentinelLine   == <<"S", "\n">>
PaddedSentinel == <<" ", "S", " ", "\n">>
CodeLine       == <<"a", "\n">>
BlankLine      == <<"\n">>
PlainReply     == <<"a", "\n">>
PaddedReply    == <<" ", "a", " ", "\n">>
BareReply      == <<"b">>

IntakeLines == {SentinelLine, PaddedSentinel, CodeLine, BlankLine}
ReplyLines  == {PlainReply, PaddedReply, BareReply}

Prompts  == {<<>>, <<"p", "\n">>}
RawTexts == {<<"a">>, <<"b", "\n">>}
StderrTexts == {<<"e", "\n">>}
DirectLines == {PlainReply}
BypassTexts == {<<"c", "\n">>}

PrintCalls ==
    { [args |-> <<<<"a">>>>,          sep |-> <<" ">>, end |-> <<"\n">>],
      [args |-> <<<<"a">>, <<"b">>>>, sep |-> <<" ">>, end |-> <<"\n">>],
      [args |-> <<<<"b", "\n">>>>,    sep |-> <<" ">>, end |-> <<"\n">>] }

SystemExitCodes == {0, 3}
FaultKinds == {"Exception", "SystemExit", "BaseException"}
Traceback == <<"T", "\n">>
NoCodeText == <<"N">>

----------------------------------------------------------------------------
(* str helpers *)

IsSpace(c) == c \in {" ", "\n"}

RECURSIVE LStrip(_)
LStrip(s) == IF s # <<>> /\ IsSpace(Head(s)) THEN LStrip(Tail(s)) ELSE s

RECURSIVE RStrip(_)
RStrip(s) ==
    IF s # <<>> /\ IsSpace(s[Len(s)]) THEN RStrip(SubSeq(s, 1, Len(s) - 1)) ELSE s

\* str.strip()
Strip(s) == LStrip(RStrip(s))

\* str.rstrip('\n')
RECURSIVE RStripNL(_)
RStripNL(s) ==
    IF s # <<>> /\ s[Len(s)] = "\n" THEN RStripNL(SubSeq(s, 1, Len(s) - 1)) ELSE s

\* ''.join(parts)
RECURSIVE Concat(_)
Concat(parts) == IF parts = <<>> THEN <<>> ELSE Head(parts) \o Concat(Tail(parts))

\* sep.join(parts)
RECURSIVE Join(_, _)
Join(parts, sep) ==
    IF parts = <<>> THEN <<>>
    ELSE IF Len(parts) = 1 THEN Head(parts)
    ELSE Head(parts) \o sep \o Join(Tail(parts), sep)

----------------------------------------------------------------------------
(* InteractiveIO *)

\* mutant: the record is put in front of the stream instead of at its end
print_output_front(o, text) == <<[type |-> "output", content |-> text]>> \o o

print_output(o, text) == Append(o, [type |-> "output", content |-> text])

print_error(o, text) == Append(o, [type |-> "error", content |-> text])

\* mutant: the request does not carry the session identifier
input_request_message_anon(prompt, sid) ==
    [type |-> "input_request", prompt |-> prompt, sessionId |-> ""]

input_request_message(prompt, sid) ==
    [type |-> "input_request", prompt |-> prompt, sessionId |-> sid]

\* mutant: the text is put between the quotes as it is
EscapeNothing(s) == s

\* json.dumps of a str, without the quotes: line breaks, quotes and
\* backslashes are written as two-character escapes
RECURSIVE Escape(_)
Escape(s) ==
    IF s = <<>> THEN <<>>
    ELSE (CASE Head(s) = "\n" -> <<"\\", "n">>
            [] Head(s) = "\"" -> <<"\\", "\"">>
            [] Head(s) = "\\" -> <<"\\", "\\">>
            [] OTHER -> <<Head(s)>>) \o Escape(Tail(s))

JsonString(s) == <<"\"">> \o Escape(s) \o <<"\"">>

\* json.dumps(message): one JSON object, keys in insertion order
json_dumps(m) ==
    IF m.type = "input_request"
    THEN <<"{">> \o JsonString(<<"type">>) \o <<":">> \o JsonString(<<m.type>>)
         \o <<",">> \o JsonString(<<"prompt">>) \o <<":">> \o JsonString(m.prompt)
         \o <<",">> \o JsonString(<<"sessionId">>) \o <<":">>
         \o JsonString(<<m.sessionId>>) \o <<"}">>
    ELSE <<"{">> \o JsonString(<<"type">>) \o <<":">> \o JsonString(<<m.type>>)
         \o <<",">> \o JsonString(<<"content">>) \o <<":">> \o JsonString(m.content)
         \o <<"}">>

\* what print(json.dumps(message), file=original_stdout, flush=True) writes
WireLine(m) == json_dumps(m) \o <<"\n">>

\* the text custom_print hands to print_output
custom_print_text(call) == RStripNL(Join(call.args, call.sep) \o call.end)

\* the value request_input returns for what readline() gave it
user_input(line) == Strip(line)

\* the sentinel test of main's intake loop
IsSentinel(line) == Strip(line) = <<"S">>

\* mutant: the emptiness test never fires
NoCodeNever(lines) == FALSE

\* main: "if not code"
NoCode(lines) == Concat(lines) = <<>>

\* mutant: the captured stderr is sent before the captured stdout
FlushCapturedSwapped(o, so, se) ==
    LET o1 == IF se # <<>> THEN Append(o, [type |-> "error", content |-> RStripNL(se)])
              ELSE o
    IN  IF so # <<>> THEN Append(o1, [type |-> "output", content |-> RStripNL(so)])
        ELSE o1

\* execute_code, normal path: send any captured stdout/stderr
FlushCaptured(o, so, se) ==
    LET o1 == IF so # <<>> THEN print_output(o, RStripNL(so)) ELSE o
    IN  IF se # <<>> THEN print_error(o1, RStripNL(se)) ELSE o1

\* execute_code, except Exception: send the error traceback
SendTraceback(o) == print_error(o, Traceback)

\* which raised kinds the except clause of execute_code catches
Caught(kind) == kind = "Exception"

----------------------------------------------------------------------------
Init ==
    /\ argv \in {<<>>} \cup {<<s>> : s \in SessionIds}
    /\ pc = "main"
    /\ stdin_read = <<>>
    /\ eof = FALSE
    /\ code_lines = <<>>
    /\ out = <<>>
    /\ diag = <<>>
    /\ stdout_capture = <<>>
    /\ stderr_capture = <<>>
    /\ exit_status = <<>>
    /\ fault = "none"
    /\ mark = 0
    /\ steps = 0
    /\ print_log = <<>>
    /\ input_log = <<>>
    /\ replies = <<>>
    /\ reply_lines = <<>>
    /\ stdout_writes = <<>>
    /\ stderr_writes = <<>>
    /\ direct_lines = <<>>

\* main: len(sys.argv) < 2
Usage ==
    /\ pc = "main"
    /\ argv = <<>>
    /\ diag' = Append(diag, "usage")
    /\ exit_status' = <<1>>
    /\ pc' = "exited"
    /\ UNCHANGED <<argv, stdin_read, eof, code_lines, out, stdout_capture,
                   stderr_capture, fault, mark, steps, print_log, input_log,
                   replies, reply_lines, stdout_writes, stderr_writes,
                   direct_lines>>

\* main: session_id = sys.argv[1]
TakeSessionId ==
    /\ pc = "main"
    /\ argv # <<>>
    /\ pc' = "intake"
    /\ UNCHANGED <<argv, stdin_read, eof, code_lines, out, diag, stdout_capture,
                   stderr_capture, exit_status, fault, mark, steps, print_log,
                   input_log, replies, reply_lines, stdout_writes, stderr_writes,
                   direct_lines>>

\* main: one iteration of "for line in sys.stdin"
IntakeLine ==
    /\ pc = "intake"
    /\ ~eof
    /\ Len(stdin_read) < MaxLines
    /\ \E line \in IntakeLines :
         /\ IsSentinel(line) \/ Len(code_lines) < MaxCodeLines
         /\ stdin_read' = Append(stdin_read, line)
         /\ IF IsSentinel(line)
              THEN pc' = "intake_done" /\ UNCHANGED code_lines
              ELSE pc' = "intake" /\ code_lines' = Append(code_lines, line)
    /\ UNCHANGED <<argv, eof, out, diag, stdout_capture, stderr_capture,
                   exit_status, fault, mark, steps, print_log, input_log,
                   replies, reply_lines, stdout_writes, stderr_writes,
                   direct_lines>>

\* main: the intake loop ends because sys.stdin is exhausted
IntakeEof ==
    /\ pc = "intake"
    /\ eof' = TRUE
    /\ pc' = "intake_done"
    /\ UNCHANGED <<argv, stdin_read, code_lines, out, diag, stdout_capture,
                   stderr_capture, exit_status, fault, mark, steps, print_log,
                   input_log, replies, reply_lines, stdout_writes, stderr_writes,
                   direct_lines>>

\* main: "if not code" branch
RejectEmptyCode ==
    /\ pc = "intake_done"
    /\ NoCode(code_lines)
    /\ out' = print_error(out, NoCodeText)
    /\ exit_status' = <<1>>
    /\ pc' = "exited"
    /\ UNCHANGED <<argv, stdin_read, eof, code_lines, diag, stdout_capture,
                   stderr_capture, fault, mark, steps, print_log, input_log,
                   replies, reply_lines, stdout_writes, stderr_writes,
                   direct_lines>>

\* main calls execute_code; the redirections are installed and exec starts
StartExec ==
    /\ pc = "intake_done"
    /\ ~NoCode(code_lines)
    /\ stdout_capture' = <<>>
    /\ stderr_capture' = <<>>
    /\ pc' = "running"
    /\ UNCHANGED <<argv, stdin_read, eof, code_lines, out, diag, exit_status,
                   fault, mark, steps, print_log, input_log, replies,
                   reply_lines, stdout_writes, stderr_writes,
                   direct_lines>>

\* custom_print: one call of the injected print
CustomPrint ==
    /\ pc = "running"
    /\ steps < MaxSteps
    /\ \E call \in PrintCalls :
         /\ out' = print_output(out, custom_print_text(call))
         /\ print_log' = Append(print_log, call)
    /\ steps' = steps + 1
    /\ UNCHANGED <<argv, pc, stdin_read, eof, code_lines, diag, stdout_capture,
                   stderr_capture, exit_status, fault, mark, input_log, replies,
                   reply_lines, stdout_writes, stderr_writes,
                   direct_lines>>

\* mutant: the request is written but the caller does not wait for the reply
RequestInputNoWait ==
    /\ pc = "running"
    /\ steps < MaxSteps
    /\ \E prompt \in Prompts :
         /\ out' = Append(out, input_request_message(prompt, argv[1]))
         /\ input_log' = Append(input_log, prompt)
    /\ steps' = steps + 1
    /\ UNCHANGED <<argv, pc, stdin_read, eof, code_lines, diag, stdout_capture,
                   stderr_capture, exit_status, fault, mark, print_log, replies,
                   reply_lines, stdout_writes, stderr_writes, direct_lines>>

\* custom_input -> request_input: the request record is written and flushed
RequestInput ==
    /\ pc = "running"
    /\ steps < MaxSteps
    /\ \E prompt \in Prompts :
         /\ out' = Append(out, input_request_message(prompt, argv[1]))
         /\ input_log' = Append(input_log, prompt)
    /\ steps' = steps + 1
    /\ pc' = "awaiting"
    /\ UNCHANGED <<argv, stdin_read, eof, code_lines, diag, stdout_capture,
                   stderr_capture, exit_status, fault, mark, print_log, replies,
                   reply_lines, stdout_writes, stderr_writes,
                   direct_lines>>

\* request_input: readline() yields a line of the parent; the call returns
ReplyLine ==
    /\ pc = "awaiting"
    /\ ~eof
    /\ Len(stdin_read) < MaxLines
    /\ \E line \in ReplyLines :
         /\ stdin_read' = Append(stdin_read, line)
         /\ reply_lines' = Append(reply_lines, line)
         /\ replies' = Append(replies, user_input(line))
         /\ eof' = (line[Len(line)] # "\n")
    /\ pc' = "running"
    /\ UNCHANGED <<argv, code_lines, out, diag, stdout_capture, stderr_capture,
                   exit_status, fault, mark, steps, print_log, input_log,
                   stdout_writes, stderr_writes,
                   direct_lines>>

\* mutant: end-of-stream raises EOFError, as the built-in input() does
ReplyEofRaises ==
    /\ pc = "awaiting"
    /\ eof' = TRUE
    /\ fault' = "Exception"
    /\ mark' = Len(out)
    /\ out' = SendTraceback(out)
    /\ exit_status' = <<0>>
    /\ pc' = "exited"
    /\ UNCHANGED <<argv, stdin_read, code_lines, diag, stdout_capture,
                   stderr_capture, steps, print_log, input_log, replies,
                   reply_lines, stdout_writes, stderr_writes,
                   direct_lines>>

\* request_input: readline() yields '' at end-of-stream; the call returns
ReplyEof ==
    /\ pc = "awaiting"
    /\ eof' = TRUE
    /\ reply_lines' = Append(reply_lines, <<>>)
    /\ replies' = Append(replies, user_input(<<>>))
    /\ pc' = "running"
    /\ UNCHANGED <<argv, stdin_read, code_lines, out, diag, stdout_capture,
                   stderr_capture, exit_status, fault, mark, steps, print_log,
                   input_log, stdout_writes, stderr_writes,
                   direct_lines>>

\* the code writes to sys.stdout while redirect_stdout is in force
RawWriteStdout ==
    /\ pc = "running"
    /\ steps < MaxSteps
    /\ \E text \in RawTexts :
         /\ stdout_capture' = stdout_capture \o text
         /\ stdout_writes' = Append(stdout_writes, text)
    /\ steps' = steps + 1
    /\ UNCHANGED <<argv, pc, stdin_read, eof, code_lines, out, diag,
                   stderr_capture, exit_status, fault, mark, print_log,
                   input_log, replies, reply_lines, stderr_writes,
                   direct_lines>>

\* the code writes to sys.stderr while redirect_stderr is in force
RawWriteStderr ==
    /\ pc = "running"
    /\ steps < MaxSteps
    /\ \E text \in StderrTexts :
         /\ stderr_capture' = stderr_capture \o text
         /\ stderr_writes' = Append(stderr_writes, text)
    /\ steps' = steps + 1
    /\ UNCHANGED <<argv, pc, stdin_read, eof, code_lines, out, diag,
                   stdout_capture, exit_status, fault, mark, print_log,
                   input_log, replies, reply_lines, stdout_writes,
                   direct_lines>>

\* the code calls sys.stdin.readline() (or the built-in input) itself:
\* sys.stdin is not redirected and the builtins are complete
DirectRead ==
    /\ pc = "running"
    /\ steps < MaxSteps
    /\ steps' = steps + 1
    /\ pc' = "reading"
    /\ UNCHANGED <<argv, stdin_read, eof, code_lines, out, diag, stdout_capture,
                   stderr_capture, exit_status, fault, mark, print_log,
                   input_log, replies, reply_lines, stdout_writes,
                   stderr_writes, direct_lines>>

\* the code's own read yields a line of the parent
DirectLine ==
    /\ pc = "reading"
    /\ ~eof
    /\ Len(stdin_read) < MaxLines
    /\ \E line \in DirectLines :
         /\ stdin_read' = Append(stdin_read, line)
         /\ direct_lines' = Append(direct_lines, line)
         /\ eof' = (line[Len(line)] # "\n")
    /\ pc' = "running"
    /\ UNCHANGED <<argv, code_lines, out, diag, stdout_capture, stderr_capture,
                   exit_status, fault, mark, steps, print_log, input_log,
                   replies, reply_lines, stdout_writes, stderr_writes>>

\* the code's own read meets end-of-stream
DirectEof ==
    /\ pc = "reading"
    /\ eof' = TRUE
    /\ direct_lines' = Append(direct_lines, <<>>)
    /\ pc' = "running"
    /\ UNCHANGED <<argv, stdin_read, code_lines, out, diag, stdout_capture,
                   stderr_capture, exit_status, fault, mark, steps, print_log,
                   input_log, replies, reply_lines, stdout_writes,
                   stderr_writes>>

\* the code writes to the original stdout (sys.__stdout__, os.write(1, ...),
\* a child process): redirect_stdout replaces only the name sys.stdout
BypassWrite ==
    /\ pc = "running"
    /\ steps < MaxSteps
    /\ \E text \in BypassTexts :
         out' = Append(out, [type |-> "raw", content |-> text])
    /\ steps' = steps + 1
    /\ UNCHANGED <<argv, pc, stdin_read, eof, code_lines, diag, stdout_capture,
                   stderr_capture, exit_status, fault, mark, print_log,
                   input_log, replies, reply_lines, stdout_writes,
                   stderr_writes, direct_lines>>

\* exec returns normally: the captured streams are sent, main returns
ExecReturn ==
    /\ pc = "running"
    /\ fault' = "return"
    /\ mark' = Len(out)
    /\ out' = FlushCaptured(out, stdout_capture, stderr_capture)
    /\ exit_status' = <<0>>
    /\ pc' = "exited"
    /\ UNCHANGED <<argv, stdin_read, eof, code_lines, diag, stdout_capture,
                   stderr_capture, steps, print_log, input_log, replies,
                   reply_lines, stdout_writes, stderr_writes,
                   direct_lines>>

\* exec raises; "except Exception" either handles it or lets it propagate
\* out of main, where the interpreter ends the process
ExecRaise ==
    /\ pc = "running"
    /\ \E kind \in FaultKinds :
         /\ fault' = kind
         /\ IF Caught(kind)
              THEN /\ out' = SendTraceback(out)
                   /\ exit_status' = <<0>>
                   /\ UNCHANGED diag
              ELSE IF kind = "SystemExit"
              THEN /\ \E code \in SystemExitCodes : exit_status' = <<code>>
                   /\ UNCHANGED <<out, diag>>
              ELSE /\ exit_status' = <<1>>
                   /\ diag' = Append(diag, "traceback")
                   /\ UNCHANGED out
    /\ mark' = Len(out)
    /\ pc' = "exited"
    /\ UNCHANGED <<argv, stdin_read, eof, code_lines, stdout_capture,
                   stderr_capture, steps, print_log, input_log, replies,
                   reply_lines, stdout_writes, stderr_writes,
                   direct_lines>>

Next ==
    \/ Usage
    \/ TakeSessionId
    \/ IntakeLine
    \/ IntakeEof
    \/ RejectEmptyCode
    \/ StartExec
    \/ CustomPrint
    \/ RequestInput
    \/ ReplyLine
    \/ ReplyEof
    \/ RawWriteStdout
    \/ RawWriteStderr
    \/ DirectRead
    \/ DirectLine
    \/ DirectEof
    \/ BypassWrite
    \/ ExecReturn
    \/ ExecRaise

Spec == Init /\ [][Next]_vars

\* the steps the interpreter takes on its own while the code runs
CodeStep ==
    \/ CustomPrint
    \/ RequestInput
    \/ RawWriteStdout
    \/ RawWriteStderr
    \/ DirectRead
    \/ BypassWrite
    \/ ExecReturn
    \/ ExecRaise

\* the parent answers a request, by a line or by closing the stream
Answer == ReplyLine \/ ReplyEof

\* The code takes finitely many steps and the interpreter keeps running it;
\* a parent that follows the protocol answers every input_request; a read of
\* a stream that has already ended returns at once.  Nothing makes the parent
\* write a line that no input_request asked for.
SpecLive ==
    /\ Init /\ [][Next]_vars
    /\ WF_vars(CodeStep)
    /\ WF_vars(Answer)
    /\ WF_vars(eof /\ DirectEof)

\* the session life cycle, read off the process position
SessionState ==
    CASE pc \in {"main", "intake", "intake_done"} -> "Idle"
      [] pc \in {"running", "reading"} -> "Running"
      [] pc = "awaiting" -> "AwaitingInput"
      [] pc = "exited" /\ fault = "none"   -> "Idle"
      [] pc = "exited" /\ fault = "return" -> "Completed"
      [] OTHER -> "Faulted"

TypeOK ==
    /\ pc \in {"main", "intake", "intake_done", "running", "awaiting", "reading",
              "exited"}
    /\ Len(stdin_read) <= MaxLines
    /\ steps \in 0..MaxSteps
    /\ fault \in {"none", "return"} \cup FaultKinds
    /\ (exit_status = <<>>) <=> (pc # "exited")

----------------------------------------------------------------------------
(* Views of the outbound stream used by the properties *)

Started  == pc \in {"running", "awaiting", "reading"} \/ fault # "none"
RunEnded == fault # "none"

\* records written while exec was running / after exec ended
RunMsgs == IF RunEnded THEN SubSeq(out, 1, mark) ELSE out
EndMsgs == IF RunEnded THEN SubSeq(out, mark + 1, Len(out)) ELSE <<>>

IsOutput(m)  == m.type = "output"
IsError(m)   == m.type = "error"
IsRequest(m) == m.type = "input_request"
IsRaw(m)     == m.type = "raw"
IsRecord(m)  == m.type # "raw"

\* the records of the end-of-run flush: what was sent after exec ended, less
\* the traceback record of a caught exception
FlushMsgs ==
    IF fault = "Exception" /\ EndMsgs # <<>>
    THEN SubSeq(EndMsgs, 1, Len(EndMsgs) - 1) ELSE EndMsgs

Types(msgs) == [i \in 1..Len(msgs) |-> msgs[i].type]

\* lines main consumed before exec started: the code lines and the sentinel
IntakeLen ==
    Len(code_lines) + (IF Len(stdin_read) > Len(code_lines) THEN 1 ELSE 0)

\* inbound lines consumed since exec started
ConsumedByRun == Len(stdin_read) - IntakeLen

\* of those, the lines taken by the code's own reads of sys.stdin, and the
\* lines taken by request_input
ConsumedDirect ==
    Cardinality({i \in 1..Len(direct_lines) : direct_lines[i] # <<>>})
ConsumedByRequests == ConsumedByRun - ConsumedDirect

\* a line without its trailing line terminator
StripTerminator(line) ==
    IF line # <<>> /\ line[Len(line)] = "\n"
    THEN SubSeq(line, 1, Len(line) - 1) ELSE line

----------------------------------------------------------------------------
\* C1: every returned call of the injected print has put exactly one output
\* record on the outbound stream, the records are in call order, and all of
\* them precede whatever is sent once exec has ended (the flush records).
C1_PrintOneRecordInOrder ==
    Started =>
        LET outs == SelectSeq(RunMsgs, IsOutput)
        IN  /\ Len(outs) = Len(print_log)
            /\ \A i \in 1..Len(outs) :
                 outs[i].content = custom_print_text(print_log[i])
            /\ Len(SelectSeq(out, IsOutput)) =
                 Len(print_log) + Len(SelectSeq(EndMsgs, IsOutput))
            /\ Len(SelectSeq(EndMsgs, IsOutput)) <= 1

\* two prints with different texts, then a normal return that flushes stdout
C1_Witness ==
    /\ pc = "exited" /\ fault = "return"
    /\ Len(print_log) >= 2
    /\ custom_print_text(print_log[1]) # custom_print_text(print_log[2])
    /\ stdout_capture # <<>>
    /\ Len(out) = mark + 1

\* C2 (as stated): every call of the injected input emits one input_request
\* with the call's prompt and the session id and then consumes exactly one
\* inbound line, nothing else being emitted in between.
C2_OneLinePerRequest ==
    Started =>
        /\ Types(SelectSeq(out, IsRequest)) =
             [i \in 1..Len(input_log) |-> "input_request"]
        /\ pc # "awaiting" => ConsumedByRequests = Len(input_log)
        /\ pc = "awaiting" =>
             /\ ConsumedByRequests = Len(input_log) - 1
             /\ IsRequest(out[Len(out)])
             /\ out[Len(out)].prompt = input_log[Len(input_log)]
             /\ out[Len(out)].sessionId = argv[1]

\* C2 (amended): every call of the injected input emits one input_request
\* with the call's prompt and the session id and then consumes exactly one
\* inbound line, or none when the inbound stream is at end-of-stream; while
\* the reply is awaited the request is the last record of the stream.
C2_RequestThenAtMostOneLine ==
    Started =>
        LET reqs == SelectSeq(out, IsRequest)
        IN  /\ Len(reqs) = Len(input_log)
            /\ \A i \in 1..Len(reqs) :
                 /\ reqs[i].prompt = input_log[i]
                 /\ reqs[i].sessionId = argv[1]
            /\ Len(replies) = Len(input_log) - (IF pc = "awaiting" THEN 1 ELSE 0)
            /\ ConsumedByRequests <= Len(replies)
            /\ ~eof => ConsumedByRequests = Len(replies)
            /\ ConsumedByRequests =
                 Cardinality({i \in 1..Len(reply_lines) : reply_lines[i] # <<>>})
            /\ pc = "awaiting" => IsRequest(out[Len(out)])

\* a request answered by a line, then a request answered by end-of-stream
C2_Witness ==
    /\ pc = "running"
    /\ Len(replies) = 2
    /\ reply_lines[1] # <<>>
    /\ reply_lines[2] = <<>>
    /\ input_log[1] # input_log[2]

\* C3: when exec ends with a raised exception, the non-empty captured stdout
\* is sent as one output record and the non-empty captured stderr as one
\* error record, and the traceback error record comes after them, last.
C3_FlushBeforeTraceback ==
    (pc = "exited" /\ fault = "Exception") =>
        EndMsgs = SendTraceback(FlushCaptured(<<>>, stdout_capture, stderr_capture))

\* C4: every failure that ends exec gets exactly one translated error record
\* with a non-empty trace, and that record is the last one of the run.
C4_EveryFaultTranslated ==
    (pc = "exited" /\ fault \in FaultKinds \ {"SystemExit"}) =>
        /\ EndMsgs # <<>>
        /\ IsError(out[Len(out)])
        /\ out[Len(out)].content # <<>>

\* C5: the exit status is nonzero only for the usage error and the empty-code
\* error; every run that started executing code exits with status 0.
C5_ExitZeroOnceStarted ==
    pc = "exited" => (exit_status # <<0>> <=> ~Started)

\* C6: request_input returns the reply line with only its trailing line
\* terminator removed.
C6_ReplyVerbatim ==
    \A i \in 1..Len(replies) : replies[i] = StripTerminator(reply_lines[i])

\* C7: a request that meets end-of-stream returns the empty string without a
\* fault: the session goes from AwaitingInput back to Running, nothing is
\* emitted, and once the stream has ended every later request ends the same.
C7_EofReturnsEmpty ==
    [][ (pc = "awaiting" /\ (eof \/ stdin_read' = stdin_read) /\ pc' # pc) =>
          /\ stdin_read' = stdin_read
          /\ SessionState' = "Running"
          /\ fault' = "none"
          /\ exit_status' = <<>>
          /\ out' = out
          /\ replies' = Append(replies, <<>>) ]_vars

\* two requests in a row answered by end-of-stream, the run still going
C7_Witness ==
    /\ pc = "running"
    /\ fault = "none"
    /\ Len(replies) >= 2
    /\ reply_lines[1] = <<>> /\ replies[1] = <<>>
    /\ reply_lines[2] = <<>> /\ replies[2] = <<>>

\* C8: on a normal return the flush sends at most one record per captured
\* stream, the stdout output record before the stderr error record, and both
\* after every record produced while the code ran.
C8_FlushOrder ==
    (pc = "exited" /\ fault = "return") =>
        /\ Types(EndMsgs) \in
             {<<>>, <<"output">>, <<"error">>, <<"output", "error">>}
        /\ Len(SelectSeq(RunMsgs, IsRecord)) = Len(print_log) + Len(input_log)
        /\ \A i \in 1..mark :
             out[i].type \in {"output", "input_request", "raw"}
        /\ Len(SelectSeq(RunMsgs, IsOutput)) = Len(print_log)
        /\ Len(SelectSeq(RunMsgs, IsRequest)) = Len(input_log)

\* a normal return after a print, with both captured streams written
C8_Witness ==
    /\ pc = "exited" /\ fault = "return"
    /\ print_log # <<>>
    /\ stdout_capture # <<>> /\ stderr_capture # <<>>
    /\ Types(EndMsgs) = <<"output", "error">>

\* C9: a flush record is sent for a raw stream if and only if the run wrote
\* to it, and then exactly one, whose content is the concatenation of all
\* the writes in write order.
C9_FlushIffWritten ==
    (pc = "exited" /\ RunEnded) =>
        /\ SelectSeq(FlushMsgs, IsOutput) =
             (IF stdout_writes # <<>>
              THEN <<[type |-> "output", content |-> Concat(stdout_writes)]>>
              ELSE <<>>)
        /\ SelectSeq(FlushMsgs, IsError) =
             (IF stderr_writes # <<>>
              THEN <<[type |-> "error", content |-> Concat(stderr_writes)]>>
              ELSE <<>>)

\* C10: when the intake ends with no code line, exactly one error record with
\* the text "No code provided" is sent, the exit status is nonzero, exec is
\* never started and nothing else is sent.
C10_NoCodeRejected ==
    (argv # <<>> /\ pc \notin {"main", "intake"} /\ code_lines = <<>>) =>
        /\ pc \in {"intake_done", "exited"}
        /\ ~Started
        /\ steps = 0
        /\ pc = "intake_done" => out = <<>>
        /\ pc = "exited" =>
             /\ out = <<[type |-> "error", content |-> NoCodeText]>>
             /\ exit_status # <<>> /\ exit_status # <<0>>

\* the sentinel arrived first and the process has exited
C10_Witness ==
    /\ pc = "exited"
    /\ argv # <<>>
    /\ code_lines = <<>>
    /\ stdin_read = <<SentinelLine>>
    /\ out # <<>>

\* requests emitted and not yet answered
Outstanding == Len(input_log) - Len(replies)

LifecycleSteps ==
    { <<"Idle", "Idle">>, <<"Idle", "Running">>, <<"Running", "Running">>,
      <<"Running", "AwaitingInput">>, <<"AwaitingInput", "Running">>,
      <<"Running", "Completed">>, <<"Running", "Faulted">> }

\* C11: the session goes Idle -> Running -> Completed or Faulted; the two
\* final states are never left and nothing is emitted in them; AwaitingInput
\* is entered only from Running and left only to Running; a request is
\* outstanding exactly while the session is in AwaitingInput, and never more
\* than one.
C11_Lifecycle ==
    [][ /\ <<SessionState, SessionState'>> \in LifecycleSteps
        /\ SessionState \notin {"Completed", "Faulted"}
        /\ Outstanding' \in {0, 1}
        /\ (Outstanding' = 1) <=> (SessionState' = "AwaitingInput")
        /\ (SessionState' = "Completed") <=> (pc' = "exited" /\ fault' = "return")
        /\ (SessionState' = "Faulted") <=> (pc' = "exited" /\ fault' \in FaultKinds)
      ]_vars

\* a run that was twice in AwaitingInput and then completed
C11_Witness ==
    /\ SessionState = "Completed"
    /\ Len(replies) = 2
    /\ Outstanding = 0
    /\ out # <<>>

\* C12: the outbound stream carries complete protocol records only; what the
\* running code writes to the process's standard output or standard error
\* reaches the stream only as the content of a flush record.
C12_OnlyRecordsOnStream ==
    \A i \in 1..Len(out) : out[i].type \in {"output", "error", "input_request"}

\* C13: after the sentinel an inbound line is consumed only while a request
\* is outstanding: the run never has consumed more inbound lines than it has
\* emitted input_request records.
C13_ReadsOnlyOnRequest ==
    Started => ConsumedByRun <= Len(SelectSeq(out, IsRequest))

\* C14: every protocol record is written as exactly one line: whatever the
\* content or prompt of a record that a step puts on the stream, the written
\* text holds a single line break, and that is its last character.
C14_OneLinePerRecord ==
    [][ \A i \in (Len(out) + 1)..Len(out') :
           IsRecord(out'[i]) =>
              LET l == WireLine(out'[i])
              IN  /\ l[Len(l)] = "\n"
                  /\ \A k \in 1..(Len(l) - 1) : l[k] # "\n" ]_vars

\* a request whose prompt and a flushed output whose content hold a line break
C14_Witness ==
    /\ pc = "exited"
    /\ \E i \in 1..Len(out) :
         IsRequest(out[i]) /\ \E k \in 1..Len(out[i].prompt) : out[i].prompt[k] = "\n"
    /\ \E i \in 1..Len(out) :
         IsOutput(out[i]) /\ \E k \in 1..Len(out[i].content) : out[i].content[k] = "\n"

\* C15: the content of the output record of a print call is the arguments
\* joined by the separator followed by the terminator, less exactly that
\* trailing terminator: nothing that belongs to the arguments is removed.
C15_OnlyTerminatorStripped ==
    Started =>
        LET outs == SelectSeq(RunMsgs, IsOutput)
        IN  \A i \in 1..Len(print_log) :
               i <= Len(outs) =>
                  outs[i].content = Join(print_log[i].args, print_log[i].sep)

\* C16: the content of the error record sent for a caught exception is the
\* traceback without its trailing newline: it never ends with a newline.
C16_TracebackStripped ==
    (pc = "exited" /\ fault = "Exception") =>
        LET c == out[Len(out)].content
        IN  /\ IsError(out[Len(out)])
            /\ c = StripTerminator(Traceback)
            /\ c[Len(c)] # "\n"

\* C17: the executed code is the inbound lines that precede the first line
\* holding exactly the sentinel; a line that differs from the sentinel, be it
\* by surrounding blanks only, is a line of code and does not end the intake.
C17_ExactSentinelEndsCode ==
    Started =>
        /\ code_lines = SubSeq(stdin_read, 1, Len(code_lines))
        /\ \A i \in 1..Len(code_lines) :
             StripTerminator(code_lines[i]) # <<"S">>
        /\ Len(stdin_read) > Len(code_lines) =>
             StripTerminator(stdin_read[Len(code_lines) + 1]) = <<"S">>

\* C18: once the run has started, with code that takes finitely many steps
\* and a parent that answers every input request, the session reaches
\* Completed or Faulted.
C18_RunTerminates ==
    [](Started => <>(SessionState \in {"Completed", "Faulted"}))

\* the inbound lines consumed after the intake, in order
PostSentinel == SubSeq(stdin_read, IntakeLen + 1, Len(stdin_read))

\* C19: replies go with requests by position: the k-th input request returns
\* the k-th inbound line after the sentinel, stripped; no line serves two
\* requests and none is skipped between two requests.
C19_RepliesByPosition ==
    Started =>
        /\ \A k \in 1..Len(replies) :
             k <= Len(PostSentinel) => replies[k] = Strip(PostSentinel[k])
        /\ pc # "awaiting" /\ ~eof => Len(PostSentinel) = Len(replies)

=============================================================================
